---- MODULE Spec2Model ----
(***************************************************************************)
(* Shipment tracking system: the notification worker                      *)
(* (backend/notification_service.py) and the API handlers that feed it    *)
(* (backend/app.py), over one shared relational store.                    *)
(*                                                                         *)
(* Time is counted in minutes and kept relative to the present: a row     *)
(* holds the age of its timestamp (NOW() minus the timestamp, followed up *)
(* to Window, which is all the queries ask about), a scheduled job the    *)
(* minutes left until its next_run.  Rows of a table are the elements of  *)
(* a sequence, the row id being the index; a row inserted by an API       *)
(* transaction is invisible to the worker until that transaction commits. *)
(***************************************************************************)
EXTENDS Integers, Sequences, FiniteSets, TLC

\* ---------------------------------------------------------------- constants
Window == 15          \* INTERVAL '15 minutes' of both poll queries
PollEvery == 5        \* schedule.every(5).minutes
DayMinutes == 1440    \* schedule.every().day
SummaryLimit == 10    \* LIMIT 10 of the daily summary's table

\* ------------------------------------------------------------------- bounds
MaxShipments == 1
MaxMilestones == 3
MaxExceptions == 1
MaxReq == 2           \* API worker processes the host can run
MaxCount == 2         \* the observers' counters stop here
MaxLate == 1          \* minutes a due job is followed past its next_run
MaxDailyOffset == 1   \* minutes from worker start to the next 08:00
MaxUsers == 2
MaxDocuments == 1
MaxInvoices == 1
\* the longest name format_milestone_name is given, the milestone names of
\* the API aside
MaxNameLen == 3
\* shipments in the store when the daily summary is made
MaxSummaryShipments == 12

VARIABLES
    shipments,      \* table shipments
    milestones,     \* table milestones
    exceptions,     \* table exceptions
    api,            \* the API requests in progress, per request slot
    wpc,            \* position of NotificationService.run
    cont,           \* where run continues when the called job returns
    due,            \* jobs schedule.run_pending still has to run
    nextRun,        \* next_run of each scheduled job, in minutes from now
    jpc,            \* position of each job
    msQueue,        \* new_milestones not yet processed by check_new_milestones
    exQueue,        \* exceptions not yet processed by check_exceptions
    vhcRecipients,  \* self.vhc_recipients
    escalationEnv,  \* the environment variable ESCALATION_EMAILS
    mailTo,         \* recipients of the send_email call in progress for an alert
    msDelivered,    \* observer: send_email calls that returned True, per milestone
    sendResult,     \* observer: what the last send_email call of the milestone being processed returned
    exAttempts,     \* observer: send_email calls per exception
    exAtCall,       \* observer: the exceptions eligible when check_exceptions was called
    exRunSent,      \* observer: the exceptions alerted in the current run
    rerun,          \* observer: "first" while a poll that selected a milestone runs,
                    \* "done" once it has ended without error and until a milestone is
                    \* committed, "second" while the poll after it runs
    msMail,         \* subject and body of the send_email call in progress for a milestone
    users,          \* table users
    documents,      \* table documents
    invoices,       \* table invoices
    files,          \* the files in UPLOAD_FOLDER
    tokens,         \* the roles of the identities that hold a token
    details,        \* the optional fields (location, notes) the clients send
    fmtIn,          \* argument of format_milestone_name
    fmtOut,         \* what format_milestone_name returned
    sumIn,          \* what send_daily_summary reads: the store and the day
    sumOut          \* what send_daily_summary hands to send_email

storeVars == <<shipments, milestones, exceptions>>
loopVars == <<wpc, cont, due, nextRun>>
cfgVars == <<vhcRecipients, escalationEnv>>
msObs == <<msDelivered, sendResult, msMail>>
exObs == <<mailTo, exAttempts, exAtCall, exRunSent>>

apiTables == <<users, documents, invoices, files>>
clientVars == <<tokens, details>>
fnVars == <<fmtIn, fmtOut, sumIn, sumOut>>

vars == <<shipments, milestones, exceptions, api, wpc, cont, due, nextRun, jpc,
          msQueue, exQueue, vhcRecipients, escalationEnv, mailTo, msDelivered,
          sendResult, exAttempts, exAtCall, exRunSent, rerun, msMail,
          users, documents, invoices, files, tokens, details,
          fmtIn, fmtOut, sumIn, sumOut>>

Jobs == {"ms", "ex", "sum"}

ReqSlots == 1..MaxReq

\* ------------------------------------------------------------------ queries

\* the milestone poll's WHERE clause without m.notification_sent = FALSE
MilestoneEligibleNoFlag(i) ==
    /\ milestones[i].committed
    /\ milestones[i].shipment_id \in 1..Len(shipments)
    /\ shipments[milestones[i].shipment_id].committed
    /\ milestones[i].milestone_status = "COMPLETED"
    /\ milestones[i].actual_age < Window

\* the milestone poll's WHERE clause without the 15-minute window
MilestoneEligibleNoWindow(i) ==
    /\ milestones[i].committed
    /\ milestones[i].shipment_id \in 1..Len(shipments)
    /\ shipments[milestones[i].shipment_id].committed
    /\ milestones[i].notification_sent = FALSE
    /\ milestones[i].milestone_status = "COMPLETED"

\* WHERE clause of the milestone poll, for row i:
\* actual_date > NOW() - INTERVAL '15 minutes' is actual_age < Window
MilestoneEligible(i) ==
    /\ milestones[i].committed
    /\ milestones[i].shipment_id \in 1..Len(shipments)
    /\ shipments[milestones[i].shipment_id].committed
    /\ milestones[i].notification_sent = FALSE
    /\ milestones[i].milestone_status = "COMPLETED"
    /\ milestones[i].actual_age < Window

SelectedMilestones ==
    {i \in 1..Len(milestones) : MilestoneEligible(i)}

\* the orders of the set S had the query been ORDER BY m.actual_date ASC
OldestFirst(S) ==
    {q \in [1..Cardinality(S) -> S] :
        /\ \A a, b \in 1..Cardinality(S) : a # b => q[a] # q[b]
        /\ \A a, b \in 1..Cardinality(S) :
              a < b => milestones[q[a]].actual_age >= milestones[q[b]].actual_age}

\* the orders ORDER BY m.actual_date DESC may return the set S in
NewestFirst(S) ==
    {q \in [1..Cardinality(S) -> S] :
        /\ \A a, b \in 1..Cardinality(S) : a # b => q[a] # q[b]
        /\ \A a, b \in 1..Cardinality(S) :
              a < b => milestones[q[a]].actual_age <= milestones[q[b]].actual_age}

\* the exception poll's WHERE clause had it an idempotency marker: a row
\* already alerted is not selected again
ExceptionEligibleOnce(i) ==
    /\ exceptions[i].committed
    /\ exceptions[i].shipment_id \in 1..Len(shipments)
    /\ shipments[exceptions[i].shipment_id].committed
    /\ exceptions[i].created_age < Window
    /\ exceptions[i].status = "OPEN"
    /\ exAttempts[i] = 0

\* WHERE clause of the exception poll, for row i
ExceptionEligible(i) ==
    /\ exceptions[i].committed
    /\ exceptions[i].shipment_id \in 1..Len(shipments)
    /\ shipments[exceptions[i].shipment_id].committed
    /\ exceptions[i].created_age < Window
    /\ exceptions[i].status = "OPEN"

SelectedExceptions ==
    {i \in 1..Len(exceptions) : ExceptionEligible(i)}

\* the orders a query without ORDER BY may return the set S in
AnyOrder(S) ==
    {q \in [1..Cardinality(S) -> S] :
        \A a, b \in 1..Cardinality(S) : a # b => q[a] # q[b]}

Range(q) == {q[k] : k \in 1..Len(q)}

\* --------------------------------------------------------------- recipients
\* An environment value is a sequence of characters, an address a sequence
\* of characters without ",".

RECURSIVE SplitAcc(_, _, _)
SplitAcc(s, cur, acc) ==
    IF s = <<>> THEN Append(acc, cur)
    ELSE IF Head(s) = "," THEN SplitAcc(Tail(s), <<>>, Append(acc, cur))
    ELSE SplitAcc(Tail(s), Append(cur, Head(s)), acc)

\* str.split(',')
Split(s) == SplitAcc(s, <<>>, <<>>)

NonEmpty(e) == e # <<>>

\* os.getenv('VHC_EMAILS', 'vhc-team@example.com'): "v" stands for the default
VhcEmailsEnv == <<"v">>

\* the values of ESCALATION_EMAILS the model starts from ("" is the default)
EscalationEnvs == {<<>>, <<"e", ",", ",", "f">>}

Severities == {"LOW", "MEDIUM", "HIGH", "CRITICAL"}

\* the list send_exception_alert hands to send_email
AlertRecipients(base, sev, env) ==
    IF sev \in {"HIGH", "CRITICAL"}
    THEN base \o SelectSeq(Split(env), NonEmpty)
    ELSE base

\* self.vhc_recipients after send_exception_alert had it extended the list
\* itself instead of a copy
BaseAfterAlertAliased(base, sev, env) == AlertRecipients(base, sev, env)

\* self.vhc_recipients after send_exception_alert: the alert extends a copy
BaseAfterAlert(base, sev, env) == base

\* ------------------------------------------------------------------ strings

\* a Python string is the sequence of its characters; None is told apart
\* from every string
None == <<"None">>

LowerCase == <<"a", "b", "c", "d", "e", "f", "g", "h", "i", "j", "k", "l", "m",
               "n", "o", "p", "q", "r", "s", "t", "u", "v", "w", "x", "y", "z">>

UpperCase == <<"A", "B", "C", "D", "E", "F", "G", "H", "I", "J", "K", "L", "M",
               "N", "O", "P", "Q", "R", "S", "T", "U", "V", "W", "X", "Y", "Z">>

IsLower(c) == \E k \in 1..Len(LowerCase) : LowerCase[k] = c

IsUpper(c) == \E k \in 1..Len(UpperCase) : UpperCase[k] = c

IsCased(c) == IsLower(c) \/ IsUpper(c)

ToUpper(c) ==
    IF IsLower(c) THEN UpperCase[CHOOSE k \in 1..Len(LowerCase) : LowerCase[k] = c] ELSE c

ToLower(c) ==
    IF IsUpper(c) THEN LowerCase[CHOOSE k \in 1..Len(UpperCase) : UpperCase[k] = c] ELSE c

\* str.replace('_', ' ')
ReplaceUnderscores(s) ==
    [k \in 1..Len(s) |-> IF s[k] = "_" THEN " " ELSE s[k]]

\* str.title(): a cased character is upper-cased when the character before
\* it is not cased, lower-cased when it is; every other character is kept
RECURSIVE TitleAcc(_, _, _)
TitleAcc(s, prevCased, acc) ==
    IF s = <<>> THEN acc
    ELSE LET c == Head(s) IN
         TitleAcc(Tail(s), IsCased(c),
                  Append(acc, IF ~IsCased(c) THEN c
                              ELSE IF prevCased THEN ToLower(c)
                              ELSE ToUpper(c)))

Title(s) == TitleAcc(s, FALSE, <<>>)

\* format_milestone_name had it only replaced the underscores
FormatMilestoneNamePlain(name) ==
    IF name = None \/ name = <<>>
    THEN <<"N", "/", "A">>
    ELSE ReplaceUnderscores(name)

\* format_milestone_name: 'N/A' if not name, else
\* name.replace('_', ' ').title()
FormatMilestoneName(name) ==
    IF name = None \/ name = <<>>
    THEN <<"N", "/", "A">>
    ELSE Title(ReplaceUnderscores(name))

BookingConfirmed == <<"B", "O", "O", "K", "I", "N", "G", "_",
                      "C", "O", "N", "F", "I", "R", "M", "E", "D">>

VesselDeparted == <<"V", "E", "S", "S", "E", "L", "_",
                    "D", "E", "P", "A", "R", "T", "E", "D">>

PortArrival == <<"P", "O", "R", "T", "_", "A", "R", "R", "I", "V", "A", "L">>

\* an optional field of a row is shown when it is neither None nor ''
Truthy(v) == v \notin {"None", ""}

\* the email had the body shown every block, whatever the row holds
MilestoneMailAllBlocks(row, ship) ==
    [subject |-> <<"Milestone Update: ", FormatMilestoneName(row.milestone_name),
                   " - ", ship.booking_number>>,
     blocks |-> {"Booking Number", "Container Number", "Vessel", "Date/Time",
                 "Location", "Notes"}]

\* send_milestone_notification: the subject and the labelled blocks of the
\* body, for a row of the poll's query
MilestoneMail(row, ship) ==
    [subject |-> <<"Milestone Update: ", FormatMilestoneName(row.milestone_name),
                   " - ", ship.booking_number>>,
     blocks |-> {"Booking Number", "Container Number", "Vessel", "Date/Time"}
                \cup (IF Truthy(row.location) THEN {"Location"} ELSE {})
                \cup (IF Truthy(row.notes) THEN {"Notes"} ELSE {})]

\* --------------------------------------------------------------------- time

\* a timestamp's age a minute later
Older(a) == IF a < Window THEN a + 1 ELSE a

\* the minutes left to a next_run a minute later; a job due tomorrow is not
\* followed, nor is a job late by more than MaxLate
Left(n) == IF n = DayMinutes \/ n = -MaxLate THEN n ELSE n - 1

Elapse ==
    /\ milestones' = [i \in 1..Len(milestones) |->
                        [milestones[i] EXCEPT !.actual_age = Older(@)]]
    /\ exceptions' = [i \in 1..Len(exceptions) |->
                        [exceptions[i] EXCEPT !.created_age = Older(@)]]
    /\ nextRun' = [j \in Jobs |-> Left(nextRun[j])]
    /\ UNCHANGED shipments

\* observer: exception e is committed, OPEN and younger than Window
OpenInWindow(e) ==
    /\ exceptions[e].committed
    /\ exceptions[e].status = "OPEN"
    /\ exceptions[e].created_age < Window

\* ------------------------------------------------------------ the scheduler

JobIndex(j) == CASE j = "ms" -> 1 [] j = "ex" -> 2 [] j = "sum" -> 3

\* the periods had the polls been scheduled every 6 minutes
PeriodLonger(j) == IF j = "sum" THEN DayMinutes ELSE PollEvery + 1

Period(j) == IF j = "sum" THEN DayMinutes ELSE PollEvery

\* job.should_run: next_run has come
ShouldRun(j) == nextRun[j] <= 0

\* sorted(runnable_jobs): by next_run, jobs of equal next_run in the order
\* they were scheduled in (of two jobs late by MaxLate or more either may
\* have the earlier next_run)
SortedJobs(S) ==
    {q \in AnyOrder(S) :
        \A a, b \in 1..Cardinality(S) :
            a < b => \/ nextRun[q[a]] < nextRun[q[b]]
                     \/ /\ nextRun[q[a]] = nextRun[q[b]]
                        /\ \/ JobIndex(q[a]) < JobIndex(q[b])
                           \/ nextRun[q[a]] = -MaxLate}

\* run had it started the job on a thread of its own: it goes on at once
DuringCallThreaded(k) == k

\* run while it waits for the job it called: a call is synchronous
DuringCall(k) == "wait"

\* run calls job j and continues at k when j returns
CallJob(j, k) ==
    /\ jpc[j] = "idle"
    /\ jpc' = [jpc EXCEPT ![j] = "connect"]
    /\ wpc' = DuringCall(k)
    /\ cont' = k
    /\ exAtCall' = IF j = "ex"
                   THEN {e \in 1..Len(exceptions) : OpenInWindow(e)}
                   ELSE exAtCall

\* job j returns normally; a job run by the scheduler is rescheduled
Returned(j) ==
    /\ jpc' = [jpc EXCEPT ![j] = "idle"]
    /\ wpc' = IF wpc = "wait" THEN cont ELSE wpc
    /\ nextRun' = IF cont = "dispatch"
                  THEN [nextRun EXCEPT ![j] = Period(j)]
                  ELSE nextRun
    /\ UNCHANGED <<cont, due>>

\* an exception leaves job j: nothing in run_pending or run catches it
Raised(j) ==
    /\ jpc' = [jpc EXCEPT ![j] = "idle"]
    /\ wpc' = "crashed"
    /\ UNCHANGED <<cont, due, nextRun>>

\* run(): the three jobs are scheduled
RunStart ==
    /\ wpc = "off"
    /\ \E d \in 1..MaxDailyOffset :
          nextRun' = [j \in Jobs |-> IF j = "sum" THEN d ELSE PollEvery]
    /\ wpc' = "start_ms"
    /\ UNCHANGED <<storeVars, api, cont, due, jpc, msQueue, exQueue,
                   cfgVars, msObs, exObs, rerun>>
    /\ UNCHANGED <<apiTables, clientVars, fnVars>>

\* run(): self.check_new_milestones()
RunFirstMilestones ==
    /\ wpc = "start_ms"
    /\ CallJob("ms", "start_ex")
    /\ UNCHANGED <<storeVars, api, due, nextRun, msQueue, exQueue,
                   cfgVars, msObs, mailTo, exAttempts, exRunSent, rerun>>
    /\ UNCHANGED <<apiTables, clientVars, fnVars>>

\* run(): self.check_exceptions()
RunFirstExceptions ==
    /\ wpc = "start_ex"
    /\ CallJob("ex", "pending")
    /\ UNCHANGED <<storeVars, api, due, nextRun, msQueue, exQueue,
                   cfgVars, msObs, mailTo, exAttempts, exRunSent, rerun>>
    /\ UNCHANGED <<apiTables, clientVars, fnVars>>

\* schedule.run_pending(): the jobs that are due, sorted
RunPending ==
    /\ wpc = "pending"
    /\ \E q \in SortedJobs({j \in Jobs : ShouldRun(j)}) : due' = q
    /\ wpc' = "dispatch"
    /\ UNCHANGED <<storeVars, api, cont, nextRun, jpc, msQueue, exQueue,
                   cfgVars, msObs, exObs, rerun>>
    /\ UNCHANGED <<apiTables, clientVars, fnVars>>

\* schedule.run_pending(): run the next due job, or leave when none is left
Dispatch ==
    /\ wpc = "dispatch"
    /\ IF due = <<>>
       THEN /\ wpc' = "sleep"
            /\ UNCHANGED <<cont, due, jpc, exAtCall>>
       ELSE /\ CallJob(Head(due), "dispatch")
            /\ due' = Tail(due)
    /\ UNCHANGED <<storeVars, api, nextRun, msQueue, exQueue,
                   cfgVars, msObs, mailTo, exAttempts, exRunSent, rerun>>
    /\ UNCHANGED <<apiTables, clientVars, fnVars>>

\* time.sleep(60): a minute passes
Sleep ==
    /\ wpc = "sleep"
    /\ Elapse
    /\ wpc' = "pending"
    /\ UNCHANGED <<api, cont, due, jpc, msQueue, exQueue,
                   cfgVars, msObs, exObs, rerun>>
    /\ UNCHANGED <<apiTables, clientVars, fnVars>>

\* a minute passes while the worker is not running or is inside send_email
Tick ==
    /\ \/ wpc \in {"off", "crashed"}
       \/ \E j \in Jobs : jpc[j] = "sending"
    /\ Elapse
    /\ UNCHANGED <<api, wpc, cont, due, jpc, msQueue, exQueue,
                   cfgVars, msObs, exObs, rerun>>
    /\ UNCHANGED <<apiTables, clientVars, fnVars>>

\* ----------------------------------------------------- check_new_milestones

\* no send_email call is in progress
NoMail == <<>>

Count(c) == IF c < MaxCount THEN c + 1 ELSE c

\* conn = self.get_db_connection(), before the try
MsConnect ==
    /\ jpc["ms"] = "connect"
    /\ \E ok \in BOOLEAN :
          IF ok
          THEN /\ jpc' = [jpc EXCEPT !["ms"] = "query"]
               /\ UNCHANGED <<loopVars, rerun>>
          ELSE /\ Raised("ms")
               /\ rerun' = "none"
    /\ UNCHANGED <<storeVars, api, msQueue, exQueue, cfgVars, msObs, exObs>>
    /\ UNCHANGED <<apiTables, clientVars, fnVars>>

\* cursor.execute(query); new_milestones = cursor.fetchall(); a store error
\* is caught by the except clause, which ends the job
MsQuery ==
    /\ jpc["ms"] = "query"
    /\ \E ok \in BOOLEAN :
          IF ok
          THEN /\ \E q \in NewestFirst(SelectedMilestones) : msQueue' = q
               /\ jpc' = [jpc EXCEPT !["ms"] = "loop"]
               /\ rerun' = IF rerun = "done" THEN "second"
                           ELSE IF SelectedMilestones # {} THEN "first"
                           ELSE "none"
               /\ UNCHANGED loopVars
          ELSE /\ Returned("ms")
               /\ rerun' = "none"
               /\ UNCHANGED msQueue
    /\ UNCHANGED <<storeVars, api, exQueue, cfgVars, msObs, exObs>>
    /\ UNCHANGED <<apiTables, clientVars, fnVars>>

\* for milestone in new_milestones: self.send_milestone_notification(milestone)
\* enters send_email; after the last milestone the job returns
MsLoop ==
    /\ jpc["ms"] = "loop"
    /\ IF msQueue = <<>>
       THEN /\ Returned("ms")
            /\ rerun' = IF rerun \in {"first", "second"} THEN "done" ELSE rerun
            /\ UNCHANGED msMail
       ELSE /\ jpc' = [jpc EXCEPT !["ms"] = "sending"]
            /\ msMail' = MilestoneMail(milestones[Head(msQueue)],
                                       shipments[milestones[Head(msQueue)].shipment_id])
            /\ UNCHANGED <<loopVars, rerun>>
    /\ UNCHANGED <<storeVars, api, msQueue, exQueue, cfgVars, msDelivered,
                   sendResult, exObs>>
    /\ UNCHANGED <<apiTables, clientVars, fnVars>>

\* send_email returns True, or False after an error it caught; the caller
\* drops the result
MsSendReturn ==
    /\ jpc["ms"] = "sending"
    /\ \E ok \in BOOLEAN :
          /\ msDelivered' = [msDelivered EXCEPT ![Head(msQueue)] =
                                IF ok THEN Count(@) ELSE @]
          /\ sendResult' = IF ok THEN "sent" ELSE "failed"
    /\ msMail' = NoMail
    /\ jpc' = [jpc EXCEPT !["ms"] = "update"]
    /\ UNCHANGED <<storeVars, api, loopVars, msQueue, exQueue, cfgVars,
                   exObs, rerun>>
    /\ UNCHANGED <<apiTables, clientVars, fnVars>>

\* the row had the UPDATE been made only after send_email returned True
MarkNotifiedOnDelivery(row) ==
    IF sendResult = "sent" THEN [row EXCEPT !.notification_sent = TRUE] ELSE row

\* the row had the UPDATE set a second column
MarkNotifiedWithNote(row) ==
    [row EXCEPT !.notification_sent = TRUE, !.notes = "notified"]

\* the row after UPDATE milestones SET notification_sent = TRUE
MarkNotified(row) == [row EXCEPT !.notification_sent = TRUE]

\* the table had conn.rollback() kept the UPDATE of the failed transaction
RolledBackKept(rows) == [rows EXCEPT ![Head(msQueue)] = MarkNotified(@)]

\* the table after conn.rollback(): the UPDATE that was not committed is
\* undone, the commits of the milestones before it stay
RolledBack(rows) == rows

\* UPDATE ... WHERE milestone_id = %s; conn.commit(); a store error is caught
\* by the except clause, which rolls back and ends the job
MsUpdate ==
    /\ jpc["ms"] = "update"
    /\ \E ok \in BOOLEAN :
          IF ok
          THEN /\ milestones' = [milestones EXCEPT ![Head(msQueue)] = MarkNotified(@)]
               /\ msQueue' = Tail(msQueue)
               /\ jpc' = [jpc EXCEPT !["ms"] = "loop"]
               /\ UNCHANGED <<loopVars, rerun>>
          ELSE /\ Returned("ms")
               /\ rerun' = "none"
               /\ milestones' = RolledBack(milestones)
               /\ UNCHANGED msQueue
    /\ sendResult' = "none"
    /\ UNCHANGED <<shipments, exceptions, api, exQueue, cfgVars, msDelivered,
                   msMail, exObs>>
    /\ UNCHANGED <<apiTables, clientVars, fnVars>>

\* --------------------------------------------------------- check_exceptions

\* conn = self.get_db_connection(), before the try
ExConnect ==
    /\ jpc["ex"] = "connect"
    /\ \E ok \in BOOLEAN :
          IF ok
          THEN /\ jpc' = [jpc EXCEPT !["ex"] = "query"]
               /\ UNCHANGED loopVars
          ELSE Raised("ex")
    /\ exRunSent' = {}
    /\ UNCHANGED <<storeVars, api, msQueue, exQueue, cfgVars, msObs,
                   mailTo, exAttempts, exAtCall, rerun>>
    /\ UNCHANGED <<apiTables, clientVars, fnVars>>

\* cursor.execute(query); exceptions = cursor.fetchall(); a store error is
\* caught by the except clause, which ends the job
ExQuery ==
    /\ jpc["ex"] = "query"
    /\ \E ok \in BOOLEAN :
          IF ok
          THEN /\ \E q \in AnyOrder(SelectedExceptions) : exQueue' = q
               /\ jpc' = [jpc EXCEPT !["ex"] = "loop"]
               /\ UNCHANGED loopVars
          ELSE /\ Returned("ex")
               /\ UNCHANGED exQueue
    /\ UNCHANGED <<storeVars, api, msQueue, cfgVars, msObs, exObs, rerun>>
    /\ UNCHANGED <<apiTables, clientVars, fnVars>>

\* for exception in exceptions: self.send_exception_alert(exception) enters
\* send_email; after the last exception the job returns
ExLoop ==
    /\ jpc["ex"] = "loop"
    /\ IF exQueue = <<>>
       THEN /\ Returned("ex")
            /\ UNCHANGED <<cfgVars, exObs>>
       ELSE LET e == Head(exQueue)
                sev == exceptions[e].severity
            IN  /\ jpc' = [jpc EXCEPT !["ex"] = "sending"]
                /\ mailTo' = AlertRecipients(vhcRecipients, sev, escalationEnv)
                /\ vhcRecipients' = BaseAfterAlert(vhcRecipients, sev, escalationEnv)
                /\ exAttempts' = [exAttempts EXCEPT ![e] = Count(@)]
                /\ exRunSent' = exRunSent \cup {e}
                /\ UNCHANGED <<loopVars, escalationEnv, exAtCall>>
    /\ UNCHANGED <<storeVars, api, msQueue, exQueue, msObs, rerun>>
    /\ UNCHANGED <<apiTables, clientVars, fnVars>>

\* send_email returns; the caller drops the result
ExSendReturn ==
    /\ jpc["ex"] = "sending"
    /\ exQueue' = Tail(exQueue)
    /\ mailTo' = NoMail
    /\ jpc' = [jpc EXCEPT !["ex"] = "loop"]
    /\ UNCHANGED <<storeVars, api, loopVars, msQueue, cfgVars, msObs,
                   exAttempts, exAtCall, exRunSent, rerun>>
    /\ UNCHANGED <<apiTables, clientVars, fnVars>>

\* ------------------------------------------------------- send_daily_summary

\* conn = self.get_db_connection(), before the try
SumConnect ==
    /\ jpc["sum"] = "connect"
    /\ \E ok \in BOOLEAN :
          IF ok
          THEN /\ jpc' = [jpc EXCEPT !["sum"] = "query"]
               /\ UNCHANGED loopVars
          ELSE Raised("sum")
    /\ UNCHANGED <<storeVars, api, msQueue, exQueue, cfgVars, msObs, exObs, rerun>>
    /\ UNCHANGED <<apiTables, clientVars, fnVars>>

\* the five queries; then send_daily_summary_email enters send_email; a
\* store error is caught by the except clause, which ends the job
SumQuery ==
    /\ jpc["sum"] = "query"
    /\ \E ok \in BOOLEAN :
          IF ok
          THEN /\ jpc' = [jpc EXCEPT !["sum"] = "sending"]
               /\ UNCHANGED loopVars
          ELSE Returned("sum")
    /\ UNCHANGED <<storeVars, api, msQueue, exQueue, cfgVars, msObs, exObs, rerun>>
    /\ UNCHANGED <<apiTables, clientVars, fnVars>>

\* send_email returns and the job ends
SumSendReturn ==
    /\ jpc["sum"] = "sending"
    /\ Returned("sum")
    /\ UNCHANGED <<storeVars, api, msQueue, exQueue, cfgVars, msObs, exObs, rerun>>
    /\ UNCHANGED <<apiTables, clientVars, fnVars>>

\* ------------------------------------------------------------------ the API

BookingNumbers == {"BK1001"}
MilestoneNames == {VesselDeparted, PortArrival}
Emails == {"a@x", "b@x"}

\* the roles the handlers name, and one they do not
Roles == {"ADMIN", "SEAIR_ORIGIN", "SEAIR_US", "VHC"}

MutatingOps == {"register_user", "create_shipment", "update_milestone",
                "upload_document", "create_invoice", "create_exception"}

\* the allowlist of @role_required, per handler
AllowedRoles(op) ==
    CASE op = "register_user" -> {"ADMIN"}
      [] op = "create_shipment" -> {"SEAIR_ORIGIN", "ADMIN"}
      [] op = "update_milestone" -> {"SEAIR_ORIGIN", "SEAIR_US", "ADMIN"}
      [] op = "create_invoice" -> {"SEAIR_US", "ADMIN"}
      [] op = "create_exception" -> {"SEAIR_ORIGIN", "SEAIR_US", "ADMIN"}

\* role_required's wrapper: user_role in allowed_roles; upload_document is
\* decorated with jwt_required() alone
RoleAllowed(op, role) ==
    IF op = "upload_document" THEN TRUE ELSE role \in AllowedRoles(op)

IdleRequest == [op |-> "none", pc |-> "idle", role |-> "none",
                sid |-> 0, mid |-> 0, eid |-> 0, uid |-> 0, did |-> 0, iid |-> 0,
                name |-> <<>>, status |-> 0, mail |-> "none"]

\* a slot of a worker process the host has not started
ClosedSlot == [IdleRequest EXCEPT !.pc = "closed"]

\* the handler of op, called by role, answers with status and writes no row
Answer(op, role, status) ==
    [IdleRequest EXCEPT !.op = op, !.pc = "done", !.role = role, !.status = status]

\* the foreign key of a child row: the shipment row exists
ShipmentExists(sid) == sid \in 1..Len(shipments)

\* the INSERT of a child row waits while the shipment row it references is
\* another transaction's uncommitted insert
ShipmentVisible(r, sid) ==
    shipments[sid].committed \/ (api[r].op = "create_shipment" /\ api[r].sid = sid)

\* the status had the handler answered a failed mail with an error
StatusAfterMailChecked(op, ok) ==
    IF ok THEN (IF op = "update_milestone" THEN 200 ELSE 201) ELSE 500

\* the status a handler returns once it has called send_notification_email;
\* the result of the call is dropped
StatusAfterMail(op, ok) ==
    IF op = "update_milestone" THEN 200 ELSE 201

\* the SELECT of register_user had it found no row, whatever the table holds
EmailTakenNever(e) == FALSE

\* SELECT user_id FROM users WHERE email = %s finds a row
EmailTaken(e) == \E u \in 1..Len(users) : users[u].committed /\ users[u].email = e

\* register_user up to the commit: role check, validation, SELECT of the
\* email, INSERT INTO users
ApiRegisterUser(r) ==
    /\ api[r].pc = "idle"
    /\ \E role \in tokens, e \in Emails \cup {"missing"} :
          IF ~RoleAllowed("register_user", role)
          THEN /\ api' = [api EXCEPT ![r] = Answer("register_user", role, 403)]
               /\ UNCHANGED users
          ELSE IF e = "missing"
          THEN /\ api' = [api EXCEPT ![r] = Answer("register_user", role, 400)]
               /\ UNCHANGED users
          ELSE IF EmailTaken(e)
          THEN /\ api' = [api EXCEPT ![r] = Answer("register_user", role, 409)]
               /\ UNCHANGED users
          ELSE /\ Len(users) < MaxUsers
               /\ users' = Append(users, [email |-> e, committed |-> FALSE])
               /\ api' = [api EXCEPT ![r] =
                     [IdleRequest EXCEPT !.op = "register_user", !.pc = "commit",
                                         !.role = role, !.uid = Len(users) + 1]]
    /\ UNCHANGED <<storeVars, loopVars, jpc, msQueue, exQueue, cfgVars,
                   msObs, exObs, rerun>>
    /\ UNCHANGED <<documents, invoices, files, clientVars, fnVars>>

\* create_shipment up to the commit: role check, validation, INSERT INTO
\* shipments, INSERT INTO milestones
ApiCreateShipment(r) ==
    /\ api[r].pc = "idle"
    /\ \E role \in tokens, b \in BookingNumbers \cup {""} :
          IF ~RoleAllowed("create_shipment", role)
          THEN /\ api' = [api EXCEPT ![r] = Answer("create_shipment", role, 403)]
               /\ UNCHANGED <<shipments, milestones>>
          ELSE IF b = ""
          THEN /\ api' = [api EXCEPT ![r] = Answer("create_shipment", role, 400)]
               /\ UNCHANGED <<shipments, milestones>>
          ELSE /\ Len(shipments) < MaxShipments
               /\ Len(milestones) < MaxMilestones
               /\ shipments' = Append(shipments,
                     [booking_number |-> b,
                      current_status |-> "BOOKING_CREATED",
                      current_milestone |-> BookingConfirmed,
                      committed |-> FALSE])
               /\ milestones' = Append(milestones,
                     [shipment_id |-> Len(shipments) + 1,
                      milestone_name |-> BookingConfirmed,
                      milestone_status |-> "COMPLETED",
                      actual_age |-> 0,
                      location |-> "None",
                      notes |-> "None",
                      notification_sent |-> FALSE,
                      committed |-> FALSE])
               /\ api' = [api EXCEPT ![r] =
                     [IdleRequest EXCEPT !.op = "create_shipment", !.pc = "commit",
                                         !.role = role,
                                         !.sid = Len(shipments) + 1,
                                         !.mid = Len(milestones) + 1]]
    /\ UNCHANGED <<exceptions, loopVars, jpc, msQueue, exQueue, cfgVars,
                   msObs, exObs, rerun>>
    /\ UNCHANGED <<apiTables, clientVars, fnVars>>

\* update_milestone up to the UPDATE: role check, validation, INSERT INTO
\* milestones
ApiUpdateMilestone(r) ==
    /\ api[r].pc = "idle"
    /\ \E role \in tokens, sid \in 1..MaxShipments,
          n \in MilestoneNames \cup {<<>>}, d \in details :
          IF ~RoleAllowed("update_milestone", role)
          THEN /\ api' = [api EXCEPT ![r] = Answer("update_milestone", role, 403)]
               /\ UNCHANGED milestones
          ELSE IF n = <<>>
          THEN /\ api' = [api EXCEPT ![r] = Answer("update_milestone", role, 400)]
               /\ UNCHANGED milestones
          ELSE IF ~ShipmentExists(sid)
          THEN /\ api' = [api EXCEPT ![r] = Answer("update_milestone", role, 500)]
               /\ UNCHANGED milestones
          ELSE /\ ShipmentVisible(r, sid)
               /\ Len(milestones) < MaxMilestones
               /\ milestones' = Append(milestones,
                     [shipment_id |-> sid,
                      milestone_name |-> n,
                      milestone_status |-> "COMPLETED",
                      actual_age |-> 0,
                      location |-> d[1],
                      notes |-> d[2],
                      notification_sent |-> FALSE,
                      committed |-> FALSE])
               /\ api' = [api EXCEPT ![r] =
                     [IdleRequest EXCEPT !.op = "update_milestone", !.pc = "update",
                                         !.role = role,
                                         !.sid = sid, !.mid = Len(milestones) + 1,
                                         !.name = n]]
    /\ UNCHANGED <<shipments, exceptions, loopVars, jpc, msQueue, exQueue,
                   cfgVars, msObs, exObs, rerun>>
    /\ UNCHANGED <<apiTables, clientVars, fnVars>>

\* update_milestone: UPDATE shipments SET current_milestone, updated_at; the
\* statement waits for the row lock while another transaction that updated
\* the row is uncommitted
ApiUpdateShipment(r) ==
    /\ api[r].pc = "update"
    /\ \A o \in ReqSlots \ {r} :
          ~(api[o].op = "update_milestone" /\ api[o].pc = "commit"
            /\ api[o].sid = api[r].sid)
    /\ api' = [api EXCEPT ![r].pc = "commit"]
    /\ UNCHANGED <<storeVars, loopVars, jpc, msQueue, exQueue,
                   cfgVars, msObs, exObs, rerun>>
    /\ UNCHANGED <<apiTables, clientVars, fnVars>>

\* upload_document up to the commit: validation, file.save, INSERT INTO
\* documents; the file is written before the INSERT is tried
ApiUploadDocument(r) ==
    /\ api[r].pc = "idle"
    /\ \E role \in tokens, sid \in 1..MaxShipments,
          form \in {"no file", "no document_type", "no filename", "bad extension", "ok"} :
          IF ~RoleAllowed("upload_document", role)
          THEN /\ api' = [api EXCEPT ![r] = Answer("upload_document", role, 403)]
               /\ UNCHANGED <<documents, files>>
          ELSE IF form # "ok"
          THEN /\ api' = [api EXCEPT ![r] = Answer("upload_document", role, 400)]
               /\ UNCHANGED <<documents, files>>
          ELSE /\ Len(files) < MaxDocuments
               /\ files' = Append(files, [shipment_id |-> sid])
               /\ IF ~ShipmentExists(sid)
                  THEN /\ api' = [api EXCEPT ![r] = Answer("upload_document", role, 500)]
                       /\ UNCHANGED documents
                  ELSE /\ ShipmentVisible(r, sid)
                       /\ documents' = Append(documents,
                             [shipment_id |-> sid, file |-> Len(files) + 1,
                              committed |-> FALSE])
                       /\ api' = [api EXCEPT ![r] =
                             [IdleRequest EXCEPT !.op = "upload_document", !.pc = "commit",
                                                 !.role = role, !.sid = sid,
                                                 !.did = Len(documents) + 1]]
    /\ UNCHANGED <<storeVars, loopVars, jpc, msQueue, exQueue, cfgVars,
                   msObs, exObs, rerun>>
    /\ UNCHANGED <<users, invoices, clientVars, fnVars>>

\* create_invoice up to the commit: role check, validation, INSERT INTO
\* invoices
ApiCreateInvoice(r) ==
    /\ api[r].pc = "idle"
    /\ \E role \in tokens, sid \in 1..MaxShipments, hasFields \in BOOLEAN :
          IF ~RoleAllowed("create_invoice", role)
          THEN /\ api' = [api EXCEPT ![r] = Answer("create_invoice", role, 403)]
               /\ UNCHANGED invoices
          ELSE IF ~hasFields
          THEN /\ api' = [api EXCEPT ![r] = Answer("create_invoice", role, 400)]
               /\ UNCHANGED invoices
          ELSE IF ~ShipmentExists(sid)
          THEN /\ api' = [api EXCEPT ![r] = Answer("create_invoice", role, 500)]
               /\ UNCHANGED invoices
          ELSE /\ ShipmentVisible(r, sid)
               /\ Len(invoices) < MaxInvoices
               /\ invoices' = Append(invoices,
                     [shipment_id |-> sid, committed |-> FALSE])
               /\ api' = [api EXCEPT ![r] =
                     [IdleRequest EXCEPT !.op = "create_invoice", !.pc = "commit",
                                         !.role = role, !.sid = sid,
                                         !.iid = Len(invoices) + 1]]
    /\ UNCHANGED <<storeVars, loopVars, jpc, msQueue, exQueue, cfgVars,
                   msObs, exObs, rerun>>
    /\ UNCHANGED <<users, documents, files, clientVars, fnVars>>

\* create_exception up to the commit: role check, INSERT INTO exceptions; a
\* request without title raises KeyError before the INSERT
ApiCreateException(r) ==
    /\ api[r].pc = "idle"
    /\ \E role \in tokens, sid \in 1..MaxShipments, sev \in Severities,
          hasTitle \in BOOLEAN :
          IF ~RoleAllowed("create_exception", role)
          THEN /\ api' = [api EXCEPT ![r] = Answer("create_exception", role, 403)]
               /\ UNCHANGED exceptions
          ELSE IF ~hasTitle \/ ~ShipmentExists(sid)
          THEN /\ api' = [api EXCEPT ![r] = Answer("create_exception", role, 500)]
               /\ UNCHANGED exceptions
          ELSE /\ ShipmentVisible(r, sid)
               /\ Len(exceptions) < MaxExceptions
               /\ exceptions' = Append(exceptions,
                     [shipment_id |-> sid,
                      severity |-> sev,
                      status |-> "OPEN",
                      created_age |-> 0,
                      committed |-> FALSE])
               /\ api' = [api EXCEPT ![r] =
                     [IdleRequest EXCEPT !.op = "create_exception", !.pc = "commit",
                                         !.role = role,
                                         !.sid = sid, !.eid = Len(exceptions) + 1]]
    /\ UNCHANGED <<shipments, milestones, loopVars, jpc, msQueue, exQueue,
                   cfgVars, msObs, exObs, rerun>>
    /\ UNCHANGED <<apiTables, clientVars, fnVars>>

Commit(row) == [row EXCEPT !.committed = TRUE]

\* the handlers that call send_notification_email after the commit
MailOps == {"create_shipment", "update_milestone", "create_exception"}

\* the place of a milestone in the lifecycle
Stage(n) ==
    CASE n = BookingConfirmed -> 1
      [] n = VesselDeparted -> 2
      [] n = PortArrival -> 3

\* the shipment row had UPDATE shipments only moved forward in the lifecycle
OverwriteForward(ship, a) ==
    IF Stage(a.name) > Stage(ship.current_milestone)
    THEN [ship EXCEPT !.current_milestone = a.name]
    ELSE ship

\* the shipment row had UPDATE shipments kept the name of the newer milestone
OverwriteIfNewer(ship, a) ==
    IF \E m \in 1..Len(milestones) :
          /\ milestones[m].committed
          /\ milestones[m].shipment_id = a.sid
          /\ milestones[m].actual_age < milestones[a.mid].actual_age
    THEN ship
    ELSE [ship EXCEPT !.current_milestone = a.name]

\* the shipment row after UPDATE shipments SET current_milestone = %s of
\* request a
Overwrite(ship, a) == [ship EXCEPT !.current_milestone = a.name]

\* db.session.commit(): the transaction's rows become visible; a handler that
\* sends no mail answers 201
ApiCommit(r) ==
    /\ api[r].pc = "commit"
    /\ LET a == api[r] IN
       /\ shipments' =
             IF a.op = "create_shipment"
             THEN [shipments EXCEPT ![a.sid] = Commit(@)]
             ELSE IF a.op = "update_milestone"
             THEN [shipments EXCEPT ![a.sid] = Overwrite(@, a)]
             ELSE shipments
       /\ milestones' =
             IF a.mid # 0 THEN [milestones EXCEPT ![a.mid] = Commit(@)] ELSE milestones
       /\ exceptions' =
             IF a.op = "create_exception"
             THEN [exceptions EXCEPT ![a.eid] = Commit(@)]
             ELSE exceptions
       /\ users' =
             IF a.op = "register_user" THEN [users EXCEPT ![a.uid] = Commit(@)] ELSE users
       /\ documents' =
             IF a.op = "upload_document"
             THEN [documents EXCEPT ![a.did] = Commit(@)]
             ELSE documents
       /\ invoices' =
             IF a.op = "create_invoice"
             THEN [invoices EXCEPT ![a.iid] = Commit(@)]
             ELSE invoices
       /\ rerun' = IF a.mid # 0 THEN "none" ELSE rerun
       /\ api' = IF a.op \in MailOps
                 THEN [api EXCEPT ![r].pc = "mail"]
                 ELSE [api EXCEPT ![r].pc = "done", ![r].status = 201]
    /\ UNCHANGED <<loopVars, jpc, msQueue, exQueue, cfgVars, msObs, exObs>>
    /\ UNCHANGED <<files, clientVars, fnVars>>

\* send_notification_email returns True or False; the handler answers
ApiMail(r) ==
    /\ api[r].pc = "mail"
    /\ \E ok \in BOOLEAN :
          api' = [api EXCEPT ![r].pc = "done",
                             ![r].status = StatusAfterMail(api[r].op, ok),
                             ![r].mail = IF ok THEN "ok" ELSE "failed"]
    /\ UNCHANGED <<storeVars, loopVars, jpc, msQueue, exQueue, cfgVars,
                   msObs, exObs, rerun>>
    /\ UNCHANGED <<apiTables, clientVars, fnVars>>

\* the response has left; the slot takes the next request
ApiReturn(r) ==
    /\ api[r].pc = "done"
    /\ api' = [api EXCEPT ![r] = IdleRequest]
    /\ UNCHANGED <<storeVars, loopVars, jpc, msQueue, exQueue, cfgVars,
                   msObs, exObs, rerun>>
    /\ UNCHANGED <<apiTables, clientVars, fnVars>>

\* an exception is resolved (by a writer outside these two programs)
ResolveException ==
    /\ \E e \in 1..Len(exceptions) :
          /\ exceptions[e].committed
          /\ exceptions[e].status = "OPEN"
          /\ exceptions' = [exceptions EXCEPT ![e].status = "RESOLVED"]
    /\ UNCHANGED <<shipments, milestones, api, loopVars, jpc, msQueue,
                   exQueue, cfgVars, msObs, exObs, rerun>>
    /\ UNCHANGED <<apiTables, clientVars, fnVars>>

\* ------------------------------------------------------ the specifications

\* the worker before run() is called
WorkerStart ==
    /\ wpc = "off"
    /\ cont = "off"
    /\ due = <<>>
    /\ nextRun = [j \in Jobs |-> DayMinutes]
    /\ jpc = [j \in Jobs |-> "idle"]
    /\ msQueue = <<>>
    /\ exQueue = <<>>
    /\ vhcRecipients = Split(VhcEmailsEnv)
    /\ mailTo = NoMail
    /\ sendResult = "none"
    /\ exAttempts = [i \in 1..MaxExceptions |-> 0]
    /\ exAtCall = {}
    /\ exRunSent = {}
    /\ rerun = "none"
    /\ msMail = NoMail

\* no pure function has been called
NoCall ==
    /\ fmtIn = None
    /\ fmtOut = None
    /\ sumIn = <<>>
    /\ sumOut = <<>>

\* the host runs one API worker process: requests do not overlap
OneProcess == api = [r \in ReqSlots |-> IF r = 1 THEN IdleRequest ELSE ClosedSlot]

\* the host runs two API worker processes
TwoProcesses == api = [r \in ReqSlots |-> IF r <= 2 THEN IdleRequest ELSE ClosedSlot]

\* the programs before their first step, over the tables as given
Start ==
    /\ OneProcess
    /\ WorkerStart
    /\ NoCall

\* the tables only the API uses, empty
NoApiRows ==
    /\ users = <<>>
    /\ documents = <<>>
    /\ invoices = <<>>
    /\ files = <<>>

\* a store that holds nothing yet
EmptyStore ==
    /\ shipments = <<>>
    /\ milestones = <<>>
    /\ exceptions = <<>>
    /\ msDelivered = [i \in 1..MaxMilestones |-> 0]
    /\ NoApiRows

\* a milestone of shipment 1 that is past the window and was notified
OldMilestone(n) ==
    [shipment_id |-> 1,
     milestone_name |-> n,
     milestone_status |-> "COMPLETED",
     actual_age |-> Window,
     location |-> "None",
     notes |-> "None",
     notification_sent |-> TRUE,
     committed |-> TRUE]

\* a store that holds one shipment, booked and notified long ago
BookedStore ==
    /\ shipments = <<[booking_number |-> "BK1001",
                      current_status |-> "BOOKING_CREATED",
                      current_milestone |-> BookingConfirmed,
                      committed |-> TRUE]>>
    /\ milestones = <<OldMilestone(BookingConfirmed)>>
    /\ exceptions = <<>>
    /\ msDelivered = [i \in 1..MaxMilestones |-> IF i = 1 THEN 1 ELSE 0]
    /\ NoApiRows

\* a store that holds one shipment, booked and departed long ago, both
\* milestones notified
DepartedStore ==
    /\ shipments = <<[booking_number |-> "BK1001",
                      current_status |-> "BOOKING_CREATED",
                      current_milestone |-> VesselDeparted,
                      committed |-> TRUE]>>
    /\ milestones = <<OldMilestone(BookingConfirmed), OldMilestone(VesselDeparted)>>
    /\ exceptions = <<>>
    /\ msDelivered = [i \in 1..MaxMilestones |-> IF i <= 2 THEN 1 ELSE 0]
    /\ NoApiRows

\* the clients hold an administrator's token and send no optional field
PlainClients ==
    /\ tokens = {"ADMIN"}
    /\ details = {<<"None", "None">>}

RunLoop ==
    \/ RunStart
    \/ RunFirstMilestones
    \/ RunFirstExceptions
    \/ RunPending
    \/ Dispatch
    \/ Sleep

\* ---- Spec: the worker, and milestones posted to a booked shipment

Init ==
    /\ Start
    /\ DepartedStore
    /\ PlainClients
    /\ escalationEnv = <<>>

Next ==
    \/ RunLoop
    \/ MsConnect
    \/ MsQuery
    \/ MsLoop
    \/ MsSendReturn
    \/ MsUpdate
    \/ ExConnect
    \/ ExQuery
    \/ ExLoop
    \/ SumConnect
    \/ SumQuery
    \/ SumSendReturn
    \/ Tick
    \/ \E r \in ReqSlots :
        \/ ApiUpdateMilestone(r)
        \/ ApiUpdateShipment(r)
        \/ ApiCommit(r)
        \/ ApiMail(r)
        \/ ApiReturn(r)

Spec == Init /\ [][Next]_vars

\* ---- SpecEx: the worker, and exceptions raised against a booked shipment

InitEx ==
    /\ Start
    /\ DepartedStore
    /\ PlainClients
    /\ escalationEnv \in EscalationEnvs

NextEx ==
    \/ RunLoop
    \/ MsConnect
    \/ MsQuery
    \/ MsLoop
    \/ ExConnect
    \/ ExQuery
    \/ ExLoop
    \/ ExSendReturn
    \/ SumConnect
    \/ SumQuery
    \/ SumSendReturn
    \/ Tick
    \/ ResolveException
    \/ \E r \in ReqSlots :
        \/ ApiCreateException(r)
        \/ ApiCommit(r)
        \/ ApiMail(r)
        \/ ApiReturn(r)

SpecEx == InitEx /\ [][NextEx]_vars

\* ---- SpecApi: the API alone, from an empty store

InitApi ==
    /\ Start
    /\ EmptyStore
    /\ tokens = Roles
    /\ details = {<<"None", "None">>}
    /\ escalationEnv = <<>>

NextApi ==
    \E r \in ReqSlots :
        \/ ApiRegisterUser(r)
        \/ ApiCreateShipment(r)
        \/ ApiUpdateMilestone(r)
        \/ ApiUpdateShipment(r)
        \/ ApiUploadDocument(r)
        \/ ApiCreateInvoice(r)
        \/ ApiCreateException(r)
        \/ ApiCommit(r)
        \/ ApiMail(r)
        \/ ApiReturn(r)

SpecApi == InitApi /\ [][NextApi]_vars

\* ---- SpecRace: two API processes post milestones to a booked shipment

InitRace ==
    /\ TwoProcesses
    /\ WorkerStart
    /\ NoCall
    /\ BookedStore
    /\ PlainClients
    /\ escalationEnv = <<>>

NextRace ==
    \/ Tick
    \/ \E r \in ReqSlots :
        \/ ApiUpdateMilestone(r)
        \/ ApiUpdateShipment(r)
        \/ ApiCommit(r)
        \/ ApiMail(r)
        \/ ApiReturn(r)

SpecRace == InitRace /\ [][NextRace]_vars

\* ---- SpecE2E: the worker has been started; a shipment is created and
\* milestones are posted, with or without location and notes, and the worker
\* makes its first poll

\* the worker after run() has scheduled its jobs
WorkerScheduled ==
    /\ wpc = "start_ms"
    /\ cont = "off"
    /\ due = <<>>
    /\ nextRun = [j \in Jobs |-> IF j = "sum" THEN MaxDailyOffset ELSE PollEvery]
    /\ jpc = [j \in Jobs |-> "idle"]
    /\ msQueue = <<>>
    /\ exQueue = <<>>
    /\ vhcRecipients = Split(VhcEmailsEnv)
    /\ mailTo = NoMail
    /\ sendResult = "none"
    /\ exAttempts = [i \in 1..MaxExceptions |-> 0]
    /\ exAtCall = {}
    /\ exRunSent = {}
    /\ rerun = "none"
    /\ msMail = NoMail

InitE2E ==
    /\ OneProcess
    /\ WorkerScheduled
    /\ NoCall
    /\ EmptyStore
    /\ tokens = {"ADMIN"}
    /\ details = {<<"None", "None">>, <<"Rotterdam", "delayed">>}
    /\ escalationEnv = <<>>

NextE2E ==
    \/ RunFirstMilestones
    \/ MsConnect
    \/ MsQuery
    \/ MsLoop
    \/ MsSendReturn
    \/ MsUpdate
    \/ Tick
    \/ \E r \in ReqSlots :
        \/ ApiCreateShipment(r)
        \/ ApiUpdateMilestone(r)
        \/ ApiUpdateShipment(r)
        \/ ApiCommit(r)
        \/ ApiMail(r)
        \/ ApiReturn(r)

SpecE2E == InitE2E /\ [][NextE2E]_vars

\* ---- SpecPoll: the worker's first poll over a store that holds milestones
\* of every kind

\* milestone i of shipment 1 as the store may hold it
StoredMilestone(i, sent, status, age) ==
    [shipment_id |-> 1,
     milestone_name |-> CASE i = 1 -> BookingConfirmed
                          [] i = 2 -> VesselDeparted
                          [] OTHER -> PortArrival,
     milestone_status |-> status,
     actual_age |-> age,
     location |-> "None",
     notes |-> "None",
     notification_sent |-> sent,
     committed |-> TRUE]

\* one shipment, and MaxMilestones milestones: notified or not, PENDING or
\* COMPLETED, of this minute, of the last minute of the window, or older
PolledStore ==
    /\ shipments = <<[booking_number |-> "BK1001",
                      current_status |-> "BOOKING_CREATED",
                      current_milestone |-> PortArrival,
                      committed |-> TRUE]>>
    /\ \E f \in [1..MaxMilestones ->
                    BOOLEAN \X {"PENDING", "COMPLETED"} \X {0, Window - 1, Window}] :
          milestones = [i \in 1..MaxMilestones |->
                           StoredMilestone(i, f[i][1], f[i][2], f[i][3])]
    /\ exceptions = <<>>
    /\ msDelivered = [i \in 1..MaxMilestones |-> 0]
    /\ NoApiRows

InitPoll ==
    /\ OneProcess
    /\ WorkerScheduled
    /\ NoCall
    /\ PolledStore
    /\ PlainClients
    /\ escalationEnv = <<>>

NextPoll ==
    \/ RunFirstMilestones
    \/ MsConnect
    \/ MsQuery
    \/ MsLoop
    \/ MsSendReturn
    \/ MsUpdate
    \/ Tick

SpecPoll == InitPoll /\ [][NextPoll]_vars

\* ---- SpecLive: the worker runs uninterrupted while milestones are posted

\* the step is not a store error: no job leaves its connect, its query or
\* its UPDATE by the way of an exception
NoStoreError ==
    \A j \in Jobs : jpc[j] \in {"connect", "query", "update"} => jpc'[j] # "idle"

\* a step of the worker, no store error occurring; a job takes less than a
\* minute, so that time passes in time.sleep(60) only
WorkerLive ==
    /\ \/ RunLoop
       \/ MsConnect
       \/ MsQuery
       \/ MsLoop
       \/ MsSendReturn
       \/ MsUpdate
       \/ ExConnect
       \/ ExQuery
       \/ ExLoop
       \/ SumConnect
       \/ SumQuery
       \/ SumSendReturn
    /\ NoStoreError

NextLive ==
    \/ WorkerLive
    \/ \E r \in ReqSlots :
        \/ ApiUpdateMilestone(r)
        \/ ApiUpdateShipment(r)
        \/ ApiCommit(r)
        \/ ApiMail(r)
        \/ ApiReturn(r)

\* the worker is one sequential program that is never stopped: it takes its
\* next step; nothing is asked of the requests
SpecLive == Init /\ [][NextLive]_vars /\ WF_vars(WorkerLive)

\* ---- SpecFormat: format_milestone_name on its own

\* a lower-case letter, an upper-case letter, the underscore, a digit, a space
NameChars == {"a", "B", "_", "1", " "}

FormatInputs ==
    {None, BookingConfirmed, VesselDeparted, PortArrival}
        \cup UNION {[1..k -> NameChars] : k \in 0..MaxNameLen}

\* a call self.format_milestone_name(name) and what it returns
FormatCall ==
    /\ \E name \in FormatInputs :
          /\ fmtIn' = name
          /\ fmtOut' = FormatMilestoneName(name)
    /\ UNCHANGED <<storeVars, api, loopVars, jpc, msQueue, exQueue, cfgVars,
                   msObs, exObs, rerun, apiTables, clientVars, sumIn, sumOut>>

InitFormat ==
    /\ Start
    /\ EmptyStore
    /\ PlainClients
    /\ escalationEnv = <<>>

NextFormat == FormatCall

SpecFormat == InitFormat /\ [][NextFormat]_vars

\* ---- SpecSummary: what send_daily_summary makes of the store

\* the shipments every query of the summary leaves out had it left out none
ActiveShipmentsAll(in) == 1..Len(in.shipments)

\* WHERE current_status != 'COMPLETED'
ActiveShipments(in) ==
    {i \in 1..Len(in.shipments) : in.shipments[i].current_status # "COMPLETED"}

\* DATE(col) = CURRENT_DATE, the days counted back from the current one
Today(day) == day = 0

\* the four COUNT(*) queries
Stats(in) ==
    [active |-> Cardinality(ActiveShipments(in)),
     milestones_today |->
        Cardinality({i \in 1..Len(in.milestones) : Today(in.milestones[i])}),
     open_exceptions |->
        Cardinality({i \in 1..Len(in.exceptions) : in.exceptions[i] # "RESOLVED"}),
     docs_today |->
        Cardinality({i \in 1..Len(in.documents) : Today(in.documents[i])})]

\* ORDER BY updated_at DESC: the orders of the rows S the store may return,
\* rows of equal updated_at in either order
RECURSIVE RecentFirst(_, _)
RecentFirst(in, S) ==
    IF S = {} THEN {<<>>}
    ELSE UNION {{<<x>> \o q : q \in RecentFirst(in, S \ {x})} :
                x \in {y \in S : \A z \in S : in.shipments[z].updated_at
                                                 <= in.shipments[y].updated_at}}

\* LIMIT 10
Limit(q) == SubSeq(q, 1, IF Len(q) < SummaryLimit THEN Len(q) ELSE SummaryLimit)

\* a row of the email's table: booking number, container number or
\* 'Pending', the formatted current milestone
TableRow(ship) ==
    [booking_number |-> ship.booking_number,
     container |-> IF Truthy(ship.container_number)
                   THEN ship.container_number ELSE "Pending",
     milestone |-> FormatMilestoneName(ship.current_milestone)]

\* the updated_at of shipment i of n, by the order the shipments were
\* updated in
Stamp(o, i, n) ==
    CASE o = "oldest first" -> i
      [] o = "newest first" -> n - i
      [] o = "mixed" -> (5 * i) % 23
      [] o = "in pairs" -> i \div 2

ShipmentRows(n, c, o) ==
    [i \in 1..n |->
        [booking_number |-> i,
         container_number |-> IF i % 2 = 0 THEN "None" ELSE "MSKU1",
         current_milestone |-> IF i % 3 = 0 THEN None ELSE VesselDeparted,
         current_status |-> IF i % c = 0 THEN "COMPLETED" ELSE "BOOKING_CREATED",
         updated_at |-> Stamp(o, i, n)]]

\* the stores the summary is made of: shipments, every c-th of them
\* COMPLETED; the dates of the milestones and of the documents, in days
\* before the current one; the statuses of the exceptions
SummaryInputs ==
    {[shipments |-> ShipmentRows(n, c, o), milestones |-> m,
      exceptions |-> e, documents |-> d] :
        n \in 0..MaxSummaryShipments,
        c \in {2, 3, 7},
        o \in {"oldest first", "newest first", "mixed", "in pairs"},
        m \in {<<>>, <<0>>, <<0, 1, 0>>, <<1, 1>>},
        e \in {<<>>, <<"OPEN">>, <<"RESOLVED", "OPEN", "OPEN">>},
        d \in {<<>>, <<0>>, <<1>>}}

\* send_daily_summary with every query answered, and the one send_email
\* call of send_daily_summary_email; one call is followed
DailySummaryCall ==
    /\ sumOut = <<>>
    /\ \E in \in SummaryInputs :
          \E q \in RecentFirst(in, ActiveShipments(in)) :
             /\ sumIn' = in
             /\ sumOut' = [to |-> vhcRecipients,
                           stats |-> Stats(in),
                           table |-> [k \in 1..Len(Limit(q)) |->
                                         TableRow(in.shipments[Limit(q)[k]])]]
    /\ UNCHANGED <<storeVars, api, loopVars, jpc, msQueue, exQueue, cfgVars,
                   msObs, exObs, rerun, apiTables, clientVars, fmtIn, fmtOut>>

InitSummary ==
    /\ Start
    /\ EmptyStore
    /\ PlainClients
    /\ escalationEnv = <<>>

NextSummary == DailySummaryCall

SpecSummary == InitSummary /\ [][NextSummary]_vars

\* ------------------------------------------------------------------- claims

Milestones == 1..Len(milestones)

Notified(m) == milestones[m].notification_sent

\* C1: in the milestone poll notification_sent becomes true only after a
\* confirmed delivery: every milestone whose notification_sent is true has
\* had an email delivered (send_email returned True for it).
C1_FlagOnlyAfterDelivery ==
    \A m \in Milestones : Notified(m) => msDelivered[m] >= 1

\* C2: whatever the send and store outcomes, no milestone ever has two
\* emails sent for it across poll cycles.
C2_AtMostOneEmail ==
    \A m \in Milestones : msDelivered[m] <= 1

\* C3: a poll that follows a poll that selected milestones and ended without
\* error, with no milestone committed since, selects nothing: it sends no
\* email and updates no row.
C3_RerunSendsNothing ==
    rerun = "second" =>
        /\ msQueue = <<>>
        /\ jpc["ms"] \notin {"sending", "update"}

\* the re-run has queried while a milestone notified before is still inside
\* the window
C3_Witness ==
    /\ rerun = "second"
    /\ jpc["ms"] = "loop"
    /\ \E m \in Milestones :
          /\ Notified(m)
          /\ msDelivered[m] >= 1
          /\ milestones[m].actual_age < Window

C7_WindowMissed ==
    [][\A m \in Milestones :
          (/\ milestones[m].actual_age >= Window
           /\ ~Notified(m)
           /\ m \notin Range(msQueue))
          => /\ ~milestones'[m].notification_sent
             /\ m \notin Range(msQueue')
             /\ msDelivered'[m] = msDelivered[m]]_vars

\* a poll has queried and left out a committed, completed, unnotified
\* milestone that no email was ever sent for
C7_Witness ==
    /\ jpc["ms"] = "loop"
    /\ \E m \in Milestones :
          /\ milestones[m].committed
          /\ milestones[m].milestone_status = "COMPLETED"
          /\ milestones[m].actual_age >= Window
          /\ ~Notified(m)
          /\ msDelivered[m] = 0
          /\ m \notin Range(msQueue)

\* C8: every store error in a worker job, a failure to open the database
\* connection included, is swallowed inside the job: run never ends on an
\* exception.
C8_ErrorsSwallowed == wpc # "crashed"

Running == {j \in Jobs : jpc[j] # "idle"}

\* C9: the jobs run one at a time, run waits for the job it called, and
\* until a job that is inside send_email comes out of it no job starts and
\* run does not move.
C9_OneJobAtATime ==
    /\ [](Cardinality(Running) <= 1)
    /\ [](Running # {} => wpc = "wait")
    /\ [][\A j \in Jobs :
            (jpc[j] = "sending" /\ jpc'[j] = "sending")
            => /\ wpc' = wpc
               /\ jpc' = jpc]_vars

\* check_new_milestones is inside send_email while check_exceptions is
\* overdue and has not started
C9_Witness ==
    /\ jpc["ms"] = "sending"
    /\ jpc["ex"] = "idle"
    /\ nextRun["ex"] < 0
    /\ due = <<"ex">>

Exceptions == 1..Len(exceptions)

BaseList == << <<"v">> >>

EscalationList == IF escalationEnv = <<>> THEN <<>> ELSE << <<"e">>, <<"f">> >>

\* C6: an alert for a HIGH or CRITICAL exception goes to the base list
\* followed by the non-empty escalation addresses, an alert for a LOW or
\* MEDIUM one to the base list alone, and the base list stays what it was.
C6_SeverityRouting ==
    /\ vhcRecipients = BaseList
    /\ jpc["ex"] = "sending" =>
          mailTo = IF exceptions[Head(exQueue)].severity \in {"HIGH", "CRITICAL"}
                   THEN BaseList \o EscalationList
                   ELSE BaseList

\* a CRITICAL exception is alerted for the second time, with escalation
\* addresses configured
C6_Witness ==
    /\ jpc["ex"] = "sending"
    /\ exceptions[Head(exQueue)].severity = "CRITICAL"
    /\ exAttempts[Head(exQueue)] = 2
    /\ escalationEnv # <<>>
    /\ mailTo = << <<"v">>, <<"e">>, <<"f">> >>

\* C10: when send_notification_email fails, the handler still answers with
\* its success status and the rows it wrote are committed.
C10_MailFailureNonFatal ==
    \A r \in ReqSlots :
        (api[r].pc = "done" /\ api[r].mail = "failed") =>
            /\ api[r].status = IF api[r].op = "update_milestone" THEN 200 ELSE 201
            /\ api[r].op = "create_shipment" =>
                  /\ shipments[api[r].sid].committed
                  /\ milestones[api[r].mid].committed
            /\ api[r].op = "update_milestone" =>
                  /\ milestones[api[r].mid].committed
                  /\ milestones[api[r].mid].milestone_name = api[r].name
            /\ api[r].op = "create_exception" =>
                  exceptions[api[r].eid].committed

\* update_milestone has answered after its mail failed
C10_Witness ==
    \E r \in ReqSlots :
        /\ api[r].pc = "done"
        /\ api[r].mail = "failed"
        /\ api[r].op = "update_milestone"

\* the roles some handler's allowlist names
WriterRoles == {"ADMIN", "SEAIR_ORIGIN", "SEAIR_US"}

\* the allowlist a role-gated write has: the handler's own, and for
\* upload_document, which declares none, the roles that may write at all
Gate(op) == IF op = "upload_document" THEN WriterRoles ELSE AllowedRoles(op)

apiStore == <<shipments, milestones, exceptions, users, documents, invoices, files>>

\* C11: a mutating API operation called with a role outside that
\* operation's allowlist answers 403 and leaves every table and the upload
\* folder as they were.
C11_WritesRoleGated ==
    [][\A r \in ReqSlots :
          (/\ api[r].pc = "idle"
           /\ api'[r].pc # "idle"
           /\ api'[r].op \in MutatingOps
           /\ api'[r].role \notin Gate(api'[r].op))
          => /\ api'[r].pc = "done"
             /\ api'[r].status = 403
             /\ apiStore' = apiStore]_vars

\* the milestone rows of shipment sid, in the order they were inserted in
RowsOf(sid) == SelectSeq(milestones, LAMBDA row : row.shipment_id = sid /\ row.committed)

\* C12: while no post is in progress, current_milestone of a shipment is the
\* name of its most recently posted milestone; every accepted post adds one
\* row that holds its name, and no step removes or renames a row.
C12_LastPostWins ==
    /\ []((\A r \in ReqSlots : api[r].pc \in {"idle", "closed"})
            => \A sid \in 1..Len(shipments) :
                  shipments[sid].current_milestone
                     = RowsOf(sid)[Len(RowsOf(sid))].milestone_name)
    /\ [][/\ \A r \in ReqSlots :
               (api[r].pc = "idle" /\ api'[r].op = "update_milestone"
                /\ api'[r].pc # "done")
               => /\ Len(milestones') = Len(milestones) + 1
                  /\ milestones'[Len(milestones')].milestone_name = api'[r].name
                  /\ milestones'[Len(milestones')].shipment_id = api'[r].sid
          /\ Len(milestones') >= Len(milestones)
          /\ \A m \in 1..Len(milestones) :
               /\ milestones'[m].milestone_name = milestones[m].milestone_name
               /\ milestones'[m].shipment_id = milestones[m].shipment_id]_vars

\* PORT_ARRIVAL was posted and then VESSEL_DEPARTED, against the lifecycle
C12_Witness ==
    /\ \A r \in ReqSlots : api[r].pc \in {"idle", "closed"}
    /\ Len(shipments) = 1
    /\ Len(RowsOf(1)) = 3
    /\ RowsOf(1)[2].milestone_name = PortArrival
    /\ RowsOf(1)[3].milestone_name = VesselDeparted
    /\ shipments[1].current_milestone = VesselDeparted

\* C13: of two update_milestone requests for one shipment, the one that
\* commits last leaves its name in current_milestone, whichever of the two
\* milestone rows has the later actual_date.
C13_LastCommitWins ==
    [][\A r \in ReqSlots :
          (/\ api[r].op = "update_milestone"
           /\ api[r].pc = "commit"
           /\ api'[r].pc = "mail")
          => shipments'[api[r].sid].current_milestone = api[r].name]_vars

\* both requests have committed and current_milestone is the name of the
\* older of their two rows
C13_Witness ==
    /\ \A r \in 1..2 :
          /\ api[r].op = "update_milestone"
          /\ api[r].pc \in {"mail", "done"}
          /\ api[r].mid # 0
    /\ api[1].sid = api[2].sid
    /\ \E old \in {api[1].mid, api[2].mid}, new \in {api[1].mid, api[2].mid} :
          /\ milestones[old].committed
          /\ milestones[new].committed
          /\ milestones[new].actual_age < milestones[old].actual_age
          /\ milestones[new].milestone_name # milestones[old].milestone_name
          /\ shipments[api[1].sid].current_milestone = milestones[old].milestone_name

\* "Vessel Departed"
VesselDepartedShown == <<"V", "e", "s", "s", "e", "l", " ",
                         "D", "e", "p", "a", "r", "t", "e", "d">>

\* the row the poll is sending or marking
Current == milestones[Head(msQueue)]

\* C14: after create_shipment with BK1001 and update_milestone with
\* VESSEL_DEPARTED and neither location nor notes, a poll whose query runs
\* within 15 minutes selects the milestone, sends one email for it whose
\* subject holds "Vessel Departed" and "BK1001" and whose body has neither a
\* Location nor a Notes block, and when the poll has marked the milestone
\* its notification_sent is true.
C14_EndToEnd ==
    /\ [](jpc["ms"] = "sending" /\ Current.milestone_name = VesselDeparted
            => /\ msMail.subject[2] = VesselDepartedShown
               /\ msMail.subject[4] = "BK1001"
               /\ (Current.location = "None" /\ Current.notes = "None")
                     => msMail.blocks \cap {"Location", "Notes"} = {}
               /\ Head(msQueue) \notin Range(Tail(msQueue)))
    /\ [][/\ (jpc["ms"] = "query" /\ jpc'["ms"] = "loop")
               => \A m \in 1..Len(milestones) :
                     (/\ milestones[m].committed
                      /\ milestones[m].milestone_name = VesselDeparted
                      /\ ~milestones[m].notification_sent
                      /\ milestones[m].actual_age < Window)
                     => m \in Range(msQueue')
          /\ (jpc["ms"] = "update" /\ jpc'["ms"] = "loop")
               => milestones'[Head(msQueue)].notification_sent]_vars

\* the first poll has ended without error: the VESSEL_DEPARTED milestone of
\* the shipment created as BK1001 had its email delivered and is marked
C14_Witness ==
    /\ wpc = "start_ex"
    /\ rerun = "done"
    /\ Len(shipments) = 1
    /\ shipments[1].booking_number = "BK1001"
    /\ \E m \in 1..Len(milestones) :
          /\ milestones[m].milestone_name = VesselDeparted
          /\ milestones[m].location = "None"
          /\ milestones[m].notes = "None"
          /\ milestones[m].actual_age < Window
          /\ milestones[m].notification_sent
          /\ msDelivered[m] = 1

\* format_milestone_name has returned for a name that is a string with
\* characters in it
Formatted == fmtOut # None /\ fmtIn \notin {None, <<>>}

Shown(k) == sumIn.shipments[sumOut.table[k].booking_number]

\* the non-completed shipments of the store the summary was made of
Open == {i \in 1..Len(sumIn.shipments) :
            sumIn.shipments[i].current_status # "COMPLETED"}

\* C15: the email of send_daily_summary goes to the base recipient list; its
\* counters are the number of shipments not COMPLETED, of milestones dated
\* today, of exceptions not RESOLVED and of documents created today; its
\* table shows non-completed shipments only, each once, all of them or ten,
\* most recently updated first, and none left out that is newer than one
\* shown.
C15_DailySummary ==
    sumOut # <<>> =>
       /\ sumOut.to = BaseList
       /\ sumOut.stats.active = Cardinality(Open)
       /\ sumOut.stats.milestones_today =
             Cardinality({i \in 1..Len(sumIn.milestones) : sumIn.milestones[i] = 0})
       /\ sumOut.stats.open_exceptions =
             Cardinality({i \in 1..Len(sumIn.exceptions) :
                             sumIn.exceptions[i] # "RESOLVED"})
       /\ sumOut.stats.docs_today =
             Cardinality({i \in 1..Len(sumIn.documents) : sumIn.documents[i] = 0})
       /\ Len(sumOut.table) <= SummaryLimit
       /\ Len(sumOut.table) = Cardinality(Open) \/ Len(sumOut.table) = SummaryLimit
       /\ \A k \in 1..Len(sumOut.table) :
             /\ sumOut.table[k].booking_number \in Open
             /\ \A l \in 1..Len(sumOut.table) :
                   /\ k < l => Shown(k).updated_at >= Shown(l).updated_at
                   /\ k # l => sumOut.table[k].booking_number
                                  # sumOut.table[l].booking_number
             /\ \A i \in Open :
                   (\A l \in 1..Len(sumOut.table) :
                       sumOut.table[l].booking_number # i)
                   => sumIn.shipments[i].updated_at <= Shown(k).updated_at

\* the example: 3 non-completed shipments, 2 milestones today, 1 open
\* exception and no document give 3/2/1/0 and a table of those 3 shipments
C15_Witness ==
    /\ sumOut # <<>>
    /\ Len(sumIn.shipments) = 3
    /\ sumOut.stats = [active |-> 3, milestones_today |-> 2,
                       open_exceptions |-> 1, docs_today |-> 0]
    /\ Len(sumOut.table) = 3

\* the committed rows of users
Users == {u \in 1..Len(users) : users[u].committed}

\* C17: a register_user call answered 409 or 400 inserts nothing, a call
\* that inserts a user gives an email that no user has, and so, the calls
\* not overlapping, no two users have the same email.
C17_RegisterRejects ==
    /\ [][\A r \in ReqSlots :
             (api[r].pc = "idle" /\ api'[r].pc # "idle"
                 /\ api'[r].op = "register_user")
             => /\ api'[r].status \in {400, 409} => users' = users
                /\ users' # users
                      => /\ Len(users') = Len(users) + 1
                         /\ SubSeq(users', 1, Len(users)) = users
                         /\ \A u \in Users :
                               users[u].email # users'[Len(users')].email]_vars
    /\ [](\A u, v \in Users : u # v => users[u].email # users[v].email)

\* a register call for the email of a user there is has been answered 409,
\* with a second user registered under another email
C17_Witness ==
    /\ Cardinality(Users) = 2
    /\ \E r \in ReqSlots :
          /\ api[r].op = "register_user"
          /\ api[r].pc = "done"
          /\ api[r].status = 409

\* milestone m has notification_sent = false, milestone_status = COMPLETED
\* and an actual_date within the last 15 minutes
New(m) ==
    /\ ~milestones[m].notification_sent
    /\ milestones[m].milestone_status = "COMPLETED"
    /\ milestones[m].actual_age < Window

\* position of check_new_milestones
ms == jpc["ms"]

C19_PerMilestoneCommit ==
    [][/\ (ms = "update" /\ jpc'["ms"] = "idle")
            => /\ milestones' = milestones
               /\ msQueue' = msQueue
               /\ \A m \in Range(msQueue) : ~milestones'[m].notification_sent
       /\ \A m \in Milestones :
             milestones[m].notification_sent => milestones'[m].notification_sent
       /\ ms = "idle"
            => /\ jpc'["ms"] \in {"idle", "connect"}
               /\ msMail' = NoMail
               /\ msDelivered' = msDelivered]_vars

\* a run selected three milestones, sent and marked the first, sent the
\* email of the second and ended at its UPDATE: the second and the third are
\* not marked, no email went out for the third
C19_Witness ==
    /\ ms = "idle"
    /\ Len(msQueue) = 2
    /\ \A m \in Range(msQueue) : ~milestones[m].notification_sent
    /\ msDelivered[msQueue[1]] = 1
    /\ msDelivered[msQueue[2]] = 0
    /\ \E m \in Milestones \ Range(msQueue) :
          milestones[m].notification_sent /\ msDelivered[m] = 1

\* a milestone row but for the age of its timestamp, which the passing of
\* time changes, and for its flag
Unflagged(row) == [row EXCEPT !.actual_age = 0, !.notification_sent = FALSE]

\* an exception row but for the age of its timestamp
Undated(row) == [row EXCEPT !.created_age = 0]

\* C20: a step that is not a step of an API request leaves every shipment,
\* exception, user, document and invoice row and every file as it is, adds
\* and removes no row, and changes of a milestone row nothing but
\* notification_sent, from false to true, in the UPDATE of
\* check_new_milestones for the selected milestone at hand; no step of
\* check_exceptions or send_daily_summary changes a row, and no worker step
\* sets notification_sent to false.
C20_WorkerOnlySetsFlag ==
    [][api' = api
         => /\ shipments' = shipments
            /\ <<users, documents, invoices, files>>' = <<users, documents, invoices, files>>
            /\ Len(exceptions') = Len(exceptions)
            /\ \A e \in 1..Len(exceptions) :
                  Undated(exceptions'[e]) = Undated(exceptions[e])
            /\ Len(milestones') = Len(milestones)
            /\ \A m \in Milestones :
                  /\ Unflagged(milestones'[m]) = Unflagged(milestones[m])
                  /\ milestones'[m].notification_sent # milestones[m].notification_sent
                        => /\ milestones'[m].notification_sent
                           /\ jpc["ms"] = "update"
                           /\ jpc'["ms"] = "loop"
                           /\ m = Head(msQueue)
                           /\ jpc'["ex"] = jpc["ex"]
                           /\ jpc'["sum"] = jpc["sum"]]_vars

\* the worker has marked the milestone a request posted, and has since run
\* check_exceptions and send_daily_summary
C20_Witness ==
    /\ wpc \in {"pending", "dispatch", "sleep"}
    /\ nextRun["sum"] = DayMinutes
    /\ Len(milestones) = MaxMilestones
    /\ milestones[MaxMilestones].notification_sent
    /\ msDelivered[MaxMilestones] = 1

\* milestone m is in the store and its request has committed
Posted(m) == m \in Milestones /\ milestones[m].committed

\* the oldest a milestone can be when it is committed and still meet a poll
\* inside the window, the poll before having just made its query
CommitBy == Window - PollEvery - 1

====
